---- MODULE Spec2Model ----
(***************************************************************************)
(* Outbound delivery of the MS Teams middleware (MsteamsMiddleware.send),   *)
(* together with the two caches it reads (channel directory, service URL    *)
(* cache, both owned by BotActivityHandler) and the turn error handler.     *)
(*                                                                         *)
(* Strings that the code concatenates are sequences of tokens, so that the  *)
(* newline the code inserts is visible: "a" is <<"a">>, "" is <<>>.         *)
(* A JavaScript step runs to completion: one action is the code between two *)
(* awaits.  Inbound turns interleave only where send() is suspended.        *)
(***************************************************************************)
EXTENDS Integers, Sequences, FiniteSets, TLC

\* ------------------------------------------------------------------ bounds
MaxMsgs == 2

\* ------------------------------------------------------------------ values
Null == [null |-> TRUE]

ChannelIds == {"C1", "C2"}
ChannelNames == {"ops", "dev"}
ServiceUrls == {"E1", "E2"}
ThreadIds == {"T1", "T2"}

NL == "\n"

\* String.prototype.trim on the identifiers used here: " " is the blank one.
Trim(s) == IF s = " " THEN "" ELSE s

\* ------------------------------------------------------------------ inputs
PlainText(s, ms) == [type |-> "PLAIN_TEXT", message |-> s, mentions |-> ms]
AdaptiveCard(p, ms) == [type |-> "MSTEAMS_ADAPTIVE_CARD", message |-> p, mentions |-> ms]
Unsupported(p, ms) == [type |-> "OTHER", message |-> p, mentions |-> ms]

Mention(id, name) == [id |-> id, name |-> name]

MsgPool ==
    { PlainText(<<"a">>, <<>>),
      PlainText(<<>>, <<>>),
      PlainText(<<"b">>, << Mention("", "ops"), Mention("C9", "zzz") >>),
      AdaptiveCard(<<"A">>, << Mention("C9", "") >>),
      AdaptiveCard(<<"B">>, << Mention("C1", "") >>),
      Unsupported(<<"U">>, << Mention(" ", "zzz") >>) }

RECURSIVE SeqsUpTo(_, _)
SeqsUpTo(S, n) ==
    IF n = 0 THEN { <<>> }
    ELSE LET shorter == SeqsUpTo(S, n - 1)
         IN  shorter \cup { Append(q, x) : q \in { r \in shorter : Len(r) = n - 1 }, x \in S }

MessageLists == SeqsUpTo(MsgPool, MaxMsgs)

Turn(v, url) ==
    [activity |-> [conversation |-> [id |-> v, isGroup |-> TRUE, conversationType |-> "channel"],
                   serviceUrl |-> url]]

TargetChannels ==
    { [id |-> "", name |-> "ops"], [id |-> "C1", name |-> ""], [id |-> "C9", name |-> ""] }

ContextDatas ==
    { [chatToolContext |-> Null, channel |-> c] : c \in TargetChannels }
    \cup { [chatToolContext |-> [context |-> Null], channel |-> [id |-> "C9", name |-> ""]] }
    \cup { [chatToolContext |-> Null, channel |-> Null] }
    \cup { [chatToolContext |-> [context |-> Turn("V1", "E1")], channel |-> c] :
             c \in { [id |-> "C1", name |-> ""], [id |-> "", name |-> ""] } }

\* The turns that arrive: channel C1 under either name from either service URL,
\* channel C2 (named like C1 may be) from E2; C2 is also revealed by turns that
\* did not come from it.
InboundTurns ==
    { [channel |-> [id |-> "C1", name |-> n], serviceUrl |-> u] : n \in ChannelNames, u \in ServiceUrls }
    \cup { [channel |-> [id |-> "C2", name |-> "ops"], serviceUrl |-> "E2"] }

RevealedChannels == { [id |-> "C2", name |-> "ops"] }

\* option.chatTool.type of the bot a middleware is constructed for
ChatToolTypes == {"msteams", "slack", "mattermost"}

\* ------------------------------------------------- BotActivityHandler caches
recordChannel(dir, ref) ==
    IF ref.id = "" THEN dir
    ELSE Append(SelectSeq(dir, LAMBDA e : e.id # ref.id), ref)

findChannelById(dir, id) ==
    IF \E i \in DOMAIN dir : dir[i].id = id
    THEN dir[CHOOSE i \in DOMAIN dir : dir[i].id = id]
    ELSE Null

findChannelByName(dir, name) ==
    IF \E i \in DOMAIN dir : dir[i].name = name
    THEN dir[CHOOSE i \in DOMAIN dir :
                /\ dir[i].name = name
                /\ \A j \in DOMAIN dir : dir[j].name = name => j <= i]
    ELSE Null

recordServiceUrl(cache, id, url) ==
    [k \in (DOMAIN cache) \cup {id} |-> IF k = id THEN url ELSE cache[k]]

getServiceUrlSize(cache) == Cardinality(DOMAIN cache)

findServiceUrl(cache, id) == IF id \in DOMAIN cache THEN cache[id] ELSE ""

\* ------------------------------------------------------------ composition
LogEntry(level, what) == [level |-> level, what |-> what]

JSONstringify_empty(p) == <<>>

\* JSON.stringify of an opaque payload: the payload between its delimiters.
JSONstringify(p) == <<"{">> \o p \o <<"}">>

\* CardFactory.adaptiveCard
adaptiveCard(p) == [contentType |-> "application/vnd.microsoft.card.adaptive", content |-> p]

AppendText(textMessage, s) == textMessage \o <<NL>> \o s

ResolveMention(dir, m) ==
    IF Trim(m.id) = "" /\ Trim(m.name) # ""
    THEN LET channelInfo == findChannelByName(dir, m.name)
         IN  IF channelInfo # Null THEN [m EXCEPT !.id = channelInfo.id] ELSE m
    ELSE LET channelInfo == findChannelById(dir, m.id)
         IN  IF channelInfo # Null THEN [m EXCEPT !.name = channelInfo.name] ELSE m

MentionIncluded_idOnly(m) == m.id # ""

MentionIncluded(m) == m.id # "" /\ m.name # ""

EmptyComposition ==
    [textMessage |-> <<>>, attachments |-> <<>>, mentions |-> <<>>, messages |-> <<>>, log |-> <<>>]

\* One pass of the loop over the messages: the part, then its mentions.
ComposeMessage(dir, acc, message) ==
    LET resolved == [i \in DOMAIN message.mentions |-> ResolveMention(dir, message.mentions[i])]
    IN  [textMessage |->
            IF message.type = "PLAIN_TEXT" THEN AppendText(acc.textMessage, message.message)
            ELSE IF message.type = "MSTEAMS_ADAPTIVE_CARD" THEN acc.textMessage
            ELSE AppendText(acc.textMessage, JSONstringify(message.message)),
         attachments |->
            IF message.type = "MSTEAMS_ADAPTIVE_CARD"
            THEN Append(acc.attachments, adaptiveCard(message.message))
            ELSE acc.attachments,
         mentions |-> acc.mentions \o SelectSeq(resolved, MentionIncluded),
         messages |-> Append(acc.messages, [message EXCEPT !.mentions = resolved]),
         log |->
            IF message.type \in {"PLAIN_TEXT", "MSTEAMS_ADAPTIVE_CARD"} THEN acc.log
            ELSE Append(acc.log, LogEntry("error", "UnsupportedType"))]

RECURSIVE ComposeFrom(_, _, _)
ComposeFrom(dir, acc, msgs) ==
    IF msgs = <<>> THEN acc
    ELSE ComposeFrom(dir, ComposeMessage(dir, acc, Head(msgs)), Tail(msgs))

Compose(dir, msgs) == ComposeFrom(dir, EmptyComposition, msgs)

\* MessageFactory.text / MessageFactory.attachment / an object literal: one shape,
\* an absent text is <<>> and absent attachments or entities are <<>>.
MkActivity(text, atts, entities) ==
    [kind |-> "activity", text |-> text, attachments |-> atts, entities |-> entities]

NullActivity == [kind |-> "null", text |-> <<>>, attachments |-> <<>>, entities |-> <<>>]
EmptyActivity == [kind |-> "empty", text |-> <<>>, attachments |-> <<>>, entities |-> <<>>]

Activity_dropsCards(textMessage, attachments) ==
    IF textMessage # <<>> THEN MkActivity(textMessage, <<>>, <<>>)
    ELSE IF attachments # <<>> THEN MkActivity(<<>>, attachments, <<>>)
    ELSE EmptyActivity

\* The activity of the conversational path ('' when there is nothing to send).
Activity(textMessage, attachments) ==
    IF textMessage # <<>> /\ attachments = <<>> THEN MkActivity(textMessage, <<>>, <<>>)
    ELSE IF textMessage = <<>> /\ attachments # <<>> THEN MkActivity(<<>>, attachments, <<>>)
    ELSE IF textMessage # <<>> /\ attachments # <<>> THEN MkActivity(textMessage, attachments, <<>>)
    ELSE EmptyActivity

\* ---------------------------------------------------------------- routing
IsConversation(cd) ==
    /\ cd.chatToolContext # Null
    /\ cd.chatToolContext.context # Null

\* TurnContext.getConversationReference of the stored turn's activity
TurnReference(cd) ==
    [conversation |-> cd.chatToolContext.context.activity.conversation,
     serviceUrl |-> cd.chatToolContext.context.activity.serviceUrl]

ServiceUrlCacheEmpty_skipped(cache) == FALSE

ServiceUrlCacheEmpty(cache) == getServiceUrlSize(cache) = 0

FindTargetChannel(dir, channel) ==
    IF channel.id = "" /\ channel.name # ""
    THEN findChannelByName(dir, channel.name)
    ELSE findChannelById(dir, channel.id)

\* contextData.channel is absent: reading its id throws a TypeError.
ChannelUnreadable(cd) == cd.channel = Null

TargetMissing(channelInfo) == channelInfo = Null

TargetServiceUrl_anyEntry(cache, channelInfo) == cache[CHOOSE k \in DOMAIN cache : TRUE]

TargetServiceUrl(cache, channelInfo) == findServiceUrl(cache, channelInfo.id)

ServiceUrlMissing_skipped(url) == FALSE

ServiceUrlMissing(url) == url = ""

FirstActivity(textMessage, attachments, mentions) ==
    IF textMessage # <<>> THEN MkActivity(textMessage, <<>>, mentions)
    ELSE IF Len(attachments) > 0 THEN MkActivity(<<>>, << attachments[1] >>, mentions)
    ELSE NullActivity

RestActivity_noShift(textMessage, attachments, mentions) ==
    IF Len(attachments) > 0 /\ (textMessage # <<>> \/ Len(attachments) > 1)
    THEN MkActivity(<<>>, attachments, mentions)
    ELSE NullActivity

RestActivity_alwaysShift(textMessage, attachments, mentions) ==
    IF Len(attachments) > 0 /\ (textMessage # <<>> \/ Len(attachments) > 1)
    THEN MkActivity(<<>>, Tail(attachments), mentions)
    ELSE NullActivity

RestActivity(textMessage, attachments, mentions) ==
    IF textMessage # <<>> /\ Len(attachments) > 0 THEN MkActivity(<<>>, attachments, mentions)
    ELSE IF textMessage = <<>> /\ Len(attachments) > 1 THEN MkActivity(<<>>, Tail(attachments), mentions)
    ELSE NullActivity

\* The reference the rest unit is pushed to: the created thread and the service
\* URL that send() read before it created the conversation.
RestReference(threadId, url) ==
    [conversation |-> [id |-> threadId, isGroup |-> TRUE, conversationType |-> "channel"],
     serviceUrl |-> url]

CreateCall(url, channelInfo, activity) ==
    [op |-> "createConversation", serviceUrl |-> url, channel |-> channelInfo,
     isGroup |-> TRUE, activity |-> activity]

ContinueCall(reference, activity) ==
    [op |-> "continueConversation", reference |-> reference, activity |-> activity]

\* What the caller of send() gets: the promise of an async function whose every
\* path ends in a bare return or falls off the end.
SendResult_rethrows(out) ==
    IF out \in {"TransportError", "Error"} THEN "rejected" ELSE "undefined"

SendResult(out) == "undefined"

\* -------------------------------------------------------- turn error handler
\* processTurnError: two error entries, then the trace activity and then the
\* message on the same turn, both inside one try; the first that fails ends the
\* try and is logged by the catch.  turnSent gets what was attempted.
Attempt(what, ok) == [what |-> what, ok |-> ok]

ProcessTurnError(lg, sent, traceOk, messageOk) ==
    LET l1 == lg \o << LogEntry("error", "UnhandledError"), LogEntry("error", "ErrorStack") >>
    IN  IF ~traceOk
        THEN [log |-> Append(l1, LogEntry("error", "ErrorStack")),
              turnSent |-> Append(sent, Attempt("trace", FALSE))]
        ELSE IF ~messageOk
             THEN [log |-> Append(l1, LogEntry("error", "ErrorStack")),
                   turnSent |-> sent \o << Attempt("trace", TRUE), Attempt("message", FALSE) >>]
             ELSE [log |-> l1,
                   turnSent |-> sent \o << Attempt("trace", TRUE), Attempt("message", TRUE) >>]

\* -------------------------------------------------------------- constructor
WrongChatToolType_never(type) == FALSE

WrongChatToolType(type) == type # "msteams"

\* The object the constructor leaves: on a wrong type it throws before the
\* adapter and the handler are created.
Middleware(type) ==
    IF WrongChatToolType(type)
    THEN [type |-> type, botFrameworkAdapter |-> Null, botActivityHandler |-> Null, thrown |-> TRUE]
    ELSE [type |-> type,
          botFrameworkAdapter |-> [onTurnError |-> "processTurnError"],
          botActivityHandler |-> [created |-> TRUE],
          thrown |-> FALSE]

\* ------------------------------------------------------------------ state
VARIABLES
    chanDir,      \* BotActivityHandler: channels seen, least recently recorded first
    serviceUrl,   \* BotActivityHandler: channel id -> service URL
    middleware,   \* the constructed middleware, Null before construction
    pc,           \* new, failed (constructor threw), idle, awaitContinue, awaitCreate,
                  \* done (send() returned), turnError (processTurnError ran)
    contextData,  \* the chat context data of the send in progress
    messagesIn,   \* the messages as the caller passed them
    messages,     \* the caller's message objects as send() leaves them
    frame,        \* the locals of send() that live across the await
    calls,        \* the transport calls of this send, in order
    log,          \* warn and error entries of this send, in order
    outcome,      \* how the send ended
    returned,     \* what the caller of send() got
    threadId,     \* conversationResourceResponse.id, "" before createConversation returns
    restPromise,  \* the promise of the unawaited continueConversation
    turnSent      \* what processTurnError tried to send on the failed turn

vars == << middleware, chanDir, serviceUrl, pc, contextData, messagesIn, messages, frame, calls, log,
           outcome, returned, threadId, restPromise, turnSent >>

Refusals == {"EndpointCacheEmpty", "ChannelNotFound", "EndpointNotFound"}

Init ==
    /\ chanDir = <<>>
    /\ serviceUrl = [k \in {} |-> ""]
    /\ middleware = Null
    /\ pc = "new"
    /\ contextData = Null
    /\ messagesIn = <<>>
    /\ messages = <<>>
    /\ frame = Null
    /\ calls = <<>>
    /\ log = <<>>
    /\ outcome = "none"
    /\ returned = "none"
    /\ threadId = ""
    /\ restPromise = "none"
    /\ turnSent = <<>>

\* new MsteamsMiddleware(bot)
Construct(type) ==
    /\ pc = "new"
    /\ middleware' = Middleware(type)
    /\ IF middleware'.thrown
       THEN /\ pc' = "failed"
            /\ log' = << LogEntry("error", "WrongChatToolType") >>
       ELSE /\ pc' = "idle"
            /\ UNCHANGED log
    /\ UNCHANGED << chanDir, serviceUrl, contextData, messagesIn, messages, frame, calls,
                    outcome, returned, threadId, restPromise, turnSent >>

\* An inbound turn: the handler records the channel and its service URL.  A turn
\* that arrives after send() has returned commutes with everything left of that
\* send (nothing of it reads the caches any more), so it is taken after Forget.
InboundTurn(ref, url) ==
    /\ pc \in {"idle", "awaitContinue", "awaitCreate"}
    /\ chanDir' = recordChannel(chanDir, ref)
    /\ serviceUrl' = recordServiceUrl(serviceUrl, ref.id, url)
    /\ UNCHANGED << middleware, pc, contextData, messagesIn, messages, frame, calls, log, outcome,
                    returned, threadId, restPromise, turnSent >>

\* A turn reveals a channel it did not come from: directory only.
RecordChannel(ref) ==
    /\ pc \in {"idle", "awaitContinue", "awaitCreate"}
    /\ chanDir' = recordChannel(chanDir, ref)
    /\ chanDir' # chanDir
    /\ UNCHANGED << middleware, serviceUrl, pc, contextData, messagesIn, messages, frame, calls, log,
                    outcome, returned, threadId, restPromise, turnSent >>

\* send() ends: the finally block, then the promise resolves.
Finish(out, lg) ==
    /\ pc' = "done"
    /\ outcome' = out
    /\ log' = lg
    /\ returned' = SendResult(out)
    /\ frame' = Null

\* send() from its call to its first await (or to its end).
SendStart(cd, msgs) ==
    /\ pc = "idle"
    /\ LET c == Compose(chanDir, msgs)
           activity == Activity(c.textMessage, c.attachments)
       IN  /\ contextData' = cd
           /\ messagesIn' = msgs
           /\ messages' = c.messages
           /\ IF activity = EmptyActivity
              THEN /\ Finish("Empty", Append(c.log, LogEntry("warn", "EmptyMessage")))
                   /\ calls' = <<>>
              ELSE IF IsConversation(cd)
              THEN /\ calls' = << ContinueCall(TurnReference(cd), activity) >>
                   /\ pc' = "awaitContinue"
                   /\ log' = c.log
                   /\ frame' = Null
                   /\ UNCHANGED << outcome, returned >>
              ELSE IF ServiceUrlCacheEmpty(serviceUrl)
              THEN /\ Finish("EndpointCacheEmpty", Append(c.log, LogEntry("error", "EndpointCacheEmpty")))
                   /\ calls' = <<>>
              ELSE IF ChannelUnreadable(cd)
              THEN /\ Finish("Error", Append(c.log, LogEntry("error", "ErrorStack")))
                   /\ calls' = <<>>
              ELSE LET channelInfo == FindTargetChannel(chanDir, cd.channel)
                   IN  IF TargetMissing(channelInfo)
                       THEN /\ Finish("ChannelNotFound", Append(c.log, LogEntry("error", "ChannelNotFound")))
                            /\ calls' = <<>>
                       ELSE LET url == TargetServiceUrl(serviceUrl, channelInfo)
                                firstActivity == FirstActivity(c.textMessage, c.attachments, c.mentions)
                            IN  IF ServiceUrlMissing(url)
                                THEN /\ Finish("EndpointNotFound",
                                               Append(c.log, LogEntry("error", "EndpointNotFound")))
                                     /\ calls' = <<>>
                                ELSE /\ calls' = << CreateCall(url, channelInfo, firstActivity) >>
                                     /\ pc' = "awaitCreate"
                                     /\ log' = c.log
                                     /\ frame' = [textMessage |-> c.textMessage,
                                                  attachments |-> c.attachments,
                                                  mentions |-> c.mentions,
                                                  channelInfo |-> channelInfo,
                                                  serviceUrl |-> url,
                                                  firstActivity |-> firstActivity]
                                     /\ UNCHANGED << outcome, returned >>
    /\ UNCHANGED << middleware, chanDir, serviceUrl, threadId, restPromise, turnSent >>

\* The awaited continueConversation of the conversational path settles.  A failure
\* inside the turn goes to the adapter's onTurnError (processTurnError) and the
\* promise resolves; any other failure rejects and is caught by send().
ContinueSettles(result, traceOk, messageOk) ==
    /\ pc = "awaitContinue"
    /\ \/ /\ result = "ok"
          /\ Finish("Delivered", log)
          /\ UNCHANGED turnSent
       \/ /\ result = "turnError"
          /\ LET r == ProcessTurnError(log, turnSent, traceOk, messageOk)
             IN  /\ Finish("TurnError", r.log)
                 /\ turnSent' = r.turnSent
       \/ /\ result = "rejected"
          /\ Finish("TransportError", Append(log, LogEntry("error", "ErrorStack")))
          /\ UNCHANGED turnSent
    /\ UNCHANGED << middleware, chanDir, serviceUrl, contextData, messagesIn, messages, calls, threadId,
                    restPromise >>

CreateFails_retry ==
    /\ pc = "awaitCreate"
    /\ IF Len(calls) < 2
       THEN /\ calls' = Append(calls, calls[1])
            /\ UNCHANGED << pc, log, outcome, returned, frame >>
       ELSE /\ Finish("TransportError", Append(log, LogEntry("error", "ErrorStack")))
            /\ UNCHANGED calls
    /\ UNCHANGED << middleware, chanDir, serviceUrl, contextData, messagesIn, messages,
                    threadId, restPromise, turnSent >>

CreateFails_stillPushes ==
    /\ pc = "awaitCreate"
    /\ calls' = Append(calls, ContinueCall(RestReference("", frame.serviceUrl),
                                           RestActivity(frame.textMessage, frame.attachments,
                                                        frame.mentions)))
    /\ restPromise' = "pending"
    /\ Finish("TransportError", Append(log, LogEntry("error", "ErrorStack")))
    /\ UNCHANGED << middleware, chanDir, serviceUrl, contextData, messagesIn, messages,
                    threadId, turnSent >>

\* createConversation fails: caught by send().
CreateFails ==
    /\ pc = "awaitCreate"
    /\ Finish("TransportError", Append(log, LogEntry("error", "ErrorStack")))
    /\ UNCHANGED << middleware, chanDir, serviceUrl, contextData, messagesIn, messages, calls,
                    threadId, restPromise, turnSent >>

CreateReturns_rereads(id) ==
    /\ pc = "awaitCreate"
    /\ threadId' = id
    /\ LET restActivity == RestActivity(frame.textMessage, frame.attachments, frame.mentions)
           url == findServiceUrl(serviceUrl, frame.channelInfo.id)
       IN  calls' = Append(calls, ContinueCall(RestReference(id, url), restActivity))
    /\ restPromise' = "pending"
    /\ Finish("Delivered", log)
    /\ UNCHANGED << middleware, chanDir, serviceUrl, contextData, messagesIn, messages, turnSent >>

\* createConversation returns the thread: the rest activity is built and pushed
\* with continueConversation, which send() does not await.
CreateReturns(id) ==
    /\ pc = "awaitCreate"
    /\ threadId' = id
    /\ LET restActivity == RestActivity(frame.textMessage, frame.attachments, frame.mentions)
       IN  calls' = Append(calls, ContinueCall(RestReference(id, frame.serviceUrl), restActivity))
    /\ restPromise' = "pending"
    /\ Finish("Delivered", log)
    /\ UNCHANGED << middleware, chanDir, serviceUrl, contextData, messagesIn, messages, turnSent >>

\* The unawaited continueConversation settles, possibly after send() returned.
RestSettles(result, traceOk, messageOk) ==
    /\ restPromise = "pending"
    /\ \/ /\ result = "ok"
          /\ restPromise' = "resolved"
          /\ UNCHANGED << log, turnSent >>
       \/ /\ result = "turnError"
          /\ LET r == ProcessTurnError(log, turnSent, traceOk, messageOk)
             IN  /\ log' = r.log
                 /\ turnSent' = r.turnSent
          /\ restPromise' = "resolved"
       \/ /\ result = "rejected"
          /\ restPromise' = "rejected"
          /\ UNCHANGED << log, turnSent >>
    /\ UNCHANGED << middleware, chanDir, serviceUrl, pc, contextData, messagesIn, messages, frame, calls,
                    outcome, returned, threadId >>

\* The handler of an inbound turn throws: the adapter hands the error to its
\* onTurnError, which the constructor set to processTurnError.
TurnError(traceOk, messageOk) ==
    /\ pc = "idle"
    /\ pc' = "turnError"
    /\ LET r == ProcessTurnError(log, turnSent, traceOk, messageOk)
       IN  /\ log' = r.log
           /\ turnSent' = r.turnSent
    /\ UNCHANGED << middleware, chanDir, serviceUrl, contextData, messagesIn, messages, frame,
                    calls, outcome, returned, threadId, restPromise >>

\* The caller is done with this send (or the failed turn is over); the next one
\* starts from a clean slate.
Forget ==
    /\ pc \in {"done", "turnError"}
    /\ restPromise # "pending"
    /\ pc' = "idle"
    /\ contextData' = Null
    /\ messagesIn' = <<>>
    /\ messages' = <<>>
    /\ calls' = <<>>
    /\ log' = <<>>
    /\ outcome' = "none"
    /\ returned' = "none"
    /\ threadId' = ""
    /\ restPromise' = "none"
    /\ turnSent' = <<>>
    /\ UNCHANGED << middleware, chanDir, serviceUrl, frame >>

Results == {"ok", "turnError", "rejected"}

\* A caller sends some messages to some target.
Send ==
    /\ pc = "idle"
    /\ \E cd \in ContextDatas, msgs \in MessageLists : SendStart(cd, msgs)

Next ==
    \/ \E type \in ChatToolTypes : Construct(type)
    \/ \E traceOk \in BOOLEAN, messageOk \in BOOLEAN : TurnError(traceOk, messageOk)
    \/ \E t \in InboundTurns : InboundTurn(t.channel, t.serviceUrl)
    \/ \E ref \in RevealedChannels : RecordChannel(ref)
    \/ Send
    \/ \E result \in Results, traceOk \in BOOLEAN, messageOk \in BOOLEAN :
           ContinueSettles(result, traceOk, messageOk)
    \/ CreateFails
    \/ \E id \in ThreadIds : CreateReturns(id)
    \/ \E result \in Results, traceOk \in BOOLEAN, messageOk \in BOOLEAN :
           RestSettles(result, traceOk, messageOk)
    \/ Forget

Spec == Init /\ [][Next]_vars

\* ===================================================================== claims
\* What the formulas below say about a send, in the terms of its inputs.
Started == pc \in {"awaitContinue", "awaitCreate", "done"}
Proactive == Started /\ ~IsConversation(contextData)
Conversational == Started /\ IsConversation(contextData)
SendBegins == pc = "idle" /\ pc' \in {"awaitContinue", "awaitCreate", "done"}

IsText(m) == m.type # "MSTEAMS_ADAPTIVE_CARD"
IsCard(m) == m.type = "MSTEAMS_ADAPTIVE_CARD"
HasText(msgs) == \E i \in DOMAIN msgs : IsText(msgs[i])
NumCards(msgs) == Len(SelectSeq(msgs, IsCard))
CardsOf(msgs) ==
    LET cs == SelectSeq(msgs, IsCard)
    IN  [i \in DOMAIN cs |-> [contentType |-> "application/vnd.microsoft.card.adaptive",
                              content |-> cs[i].message]]
TextOf(msgs) == Compose(<<>>, msgs).textMessage

CreateCalls == { i \in DOMAIN calls : calls[i].op = "createConversation" }
ContinueCalls == { i \in DOMAIN calls : calls[i].op = "continueConversation" }

\* The directory entry a target resolves to: by name when its id is empty, the
\* most recently recorded of that name; by id otherwise.
TargetMatches(dir, ch) ==
    IF ch.id = "" THEN { i \in DOMAIN dir : dir[i].name = ch.name }
    ELSE { i \in DOMAIN dir : dir[i].id = ch.id }
LastOf(S) == CHOOSE i \in S : \A j \in S : j <= i

\* C1: a proactive send issued while the service URL cache holds no entry ends at
\* once without any transport call and without a pending push; it is refused with
\* EndpointCacheEmpty whenever there is something to send (with nothing to send it
\* ends as the empty no-op before the gate, also without a call).
C1_EmptyCacheRefused ==
    [][ (SendBegins /\ ~IsConversation(contextData') /\ DOMAIN serviceUrl = {}) =>
            /\ pc' = "done"
            /\ calls' = <<>>
            /\ restPromise' = "none"
            /\ outcome' = IF messagesIn' = <<>> THEN "Empty" ELSE "EndpointCacheEmpty" ]_vars

C1_Witness ==
    /\ pc = "done" /\ Proactive
    /\ DOMAIN serviceUrl = {} /\ chanDir # <<>>
    /\ NumCards(messagesIn) >= 2
    /\ outcome = "EndpointCacheEmpty" /\ calls = <<>>

\* C2: a proactive send with a non-empty service URL cache whose target has no
\* directory entry (by name when the id is empty, by id otherwise), or whose
\* resolved channel id has no cache entry, ends at once without any transport
\* call: ChannelNotFound in the first case, EndpointNotFound in the second.
C2_UnresolvedRefused ==
    [][ (/\ SendBegins /\ ~IsConversation(contextData') /\ contextData'.channel # Null
         /\ DOMAIN serviceUrl # {}) =>
            LET m == TargetMatches(chanDir, contextData'.channel)
                unresolved == m = {}
                noEndpoint == m # {} /\ chanDir[LastOf(m)].id \notin DOMAIN serviceUrl
            IN  (unresolved \/ noEndpoint) =>
                    /\ pc' = "done"
                    /\ calls' = <<>>
                    /\ restPromise' = "none"
                    /\ outcome' = IF messagesIn' = <<>> THEN "Empty"
                                  ELSE IF unresolved THEN "ChannelNotFound"
                                  ELSE "EndpointNotFound" ]_vars

C2_Witness ==
    /\ pc = "done" /\ Proactive /\ contextData.channel # Null
    /\ DOMAIN serviceUrl # {}
    /\ TargetMatches(chanDir, contextData.channel) # {}
    /\ outcome = "EndpointNotFound" /\ calls = <<>>

\* C3: in a proactive send of two or more rich cards and no text that passes the
\* three checks, the first call is a createConversation whose activity carries the
\* first card alone; a second call exists only once createConversation has
\* returned a thread id, it is a continueConversation on that thread id carrying
\* the remaining cards in their order, and a delivered send made exactly these two.
C3_TwoCardsCreateThenResume ==
    (Proactive /\ ~HasText(messagesIn) /\ NumCards(messagesIn) >= 2 /\ calls # <<>>) =>
        LET cards == CardsOf(messagesIn)
        IN  /\ calls[1].op = "createConversation"
            /\ calls[1].activity.text = <<>>
            /\ calls[1].activity.attachments = << cards[1] >>
            /\ Len(calls) <= 2
            /\ Len(calls) = 2 <=> threadId # ""
            /\ (pc = "done" /\ outcome = "Delivered") => Len(calls) = 2
            /\ Len(calls) = 2 =>
                 /\ calls[2].op = "continueConversation"
                 /\ calls[2].reference.conversation.id = threadId
                 /\ calls[2].activity.text = <<>>
                 /\ calls[2].activity.attachments = Tail(cards)

C3_Witness ==
    /\ Proactive /\ ~HasText(messagesIn) /\ NumCards(messagesIn) >= 2
    /\ pc = "done" /\ outcome = "Delivered" /\ threadId = "T2"
    /\ Len(calls) = 2 /\ calls[2].reference.conversation.id = "T2"
    /\ Len(calls[2].activity.attachments) = NumCards(messagesIn) - 1

\* C4: a delivered proactive send that needs no split (text and no rich card, or
\* one rich card and no text) made one transport call, the createConversation,
\* and no continueConversation.
C4_NoSplitNoResume ==
    (/\ Proactive /\ pc = "done" /\ outcome = "Delivered"
     /\ \/ HasText(messagesIn) /\ NumCards(messagesIn) = 0
        \/ ~HasText(messagesIn) /\ NumCards(messagesIn) = 1) =>
        /\ Len(calls) = 1
        /\ ContinueCalls = {}

\* C5: the createConversation of a proactive send is addressed at the directory
\* entry its target resolves to (by name when the id is empty, the most recently
\* recorded of that name) and goes to the service URL cached for that entry's id;
\* with the directory holding {C1, ops} alone and C1 cached at E1, a send to
\* {id: "", name: "ops"} creates its conversation at C1 through E1.
C5_EndpointOfResolvedChannel ==
    [][ (SendBegins /\ ~IsConversation(contextData') /\ calls' # <<>>) =>
            LET m == TargetMatches(chanDir, contextData'.channel)
                c == calls'[1]
            IN  /\ c.op = "createConversation"
                /\ m # {}
                /\ c.channel = chanDir[LastOf(m)]
                /\ c.channel.id \in DOMAIN serviceUrl
                /\ c.serviceUrl = serviceUrl[c.channel.id]
                /\ (/\ chanDir = << [id |-> "C1", name |-> "ops"] >>
                    /\ contextData'.channel = [id |-> "", name |-> "ops"]
                    /\ "C1" \in DOMAIN serviceUrl /\ serviceUrl["C1"] = "E1") =>
                       (c.channel.id = "C1" /\ c.serviceUrl = "E1") ]_vars

C5_Witness ==
    /\ Proactive /\ pc = "awaitCreate"
    /\ contextData.channel = [id |-> "", name |-> "ops"]
    /\ DOMAIN serviceUrl = {"C1", "C2"} /\ serviceUrl["C1"] = "E1" /\ serviceUrl["C2"] = "E2"
    /\ calls[1].channel.id = "C1" /\ calls[1].serviceUrl = "E1"

\* C6: in a proactive send with text and at least one rich card, or with more
\* than one rich card, the first unit is the text alone if there is text, else
\* the first card alone; no unit but the first carries text; the cards of the
\* units sent so far are the first cards of the request in their order, none
\* twice; and a delivered send made two units that carry the text once and every
\* card once.
C6_SplitCarriesEverythingOnce ==
    (/\ Proactive /\ calls # <<>>
     /\ \/ HasText(messagesIn) /\ NumCards(messagesIn) >= 1
        \/ NumCards(messagesIn) >= 2) =>
        LET cards == CardsOf(messagesIn)
            first == calls[1].activity
            sentCards == IF Len(calls) = 1 THEN first.attachments
                         ELSE first.attachments \o calls[2].activity.attachments
        IN  /\ first.kind = "activity"
            /\ IF HasText(messagesIn)
               THEN first.text = TextOf(messagesIn) /\ first.text # <<>> /\ first.attachments = <<>>
               ELSE first.text = <<>> /\ first.attachments = << cards[1] >>
            /\ Len(calls) <= 2
            /\ Len(calls) = 2 => calls[2].activity.kind = "activity" /\ calls[2].activity.text = <<>>
            /\ Len(sentCards) <= Len(cards)
            /\ sentCards = SubSeq(cards, 1, Len(sentCards))
            /\ (pc = "done" /\ outcome = "Delivered") => (Len(calls) = 2 /\ sentCards = cards)

C6_Witness ==
    /\ Proactive /\ pc = "done" /\ outcome = "Delivered"
    /\ HasText(messagesIn) /\ NumCards(messagesIn) >= 1
    /\ Len(calls) = 2
    /\ calls[1].activity.text # <<>>
    /\ calls[2].activity.attachments = CardsOf(messagesIn)

\* C7: when the unawaited push of the rest unit fails, this core logs an error.
C7_RestFailureLogged ==
    (restPromise = "rejected" /\ Len(calls) = 2 /\ calls[2].activity.kind = "activity") =>
        \E i \in DOMAIN log :
            log[i].level = "error" /\ log[i].what \in {"ErrorStack", "UnhandledError"}

\* C8: what the caller gets from a refused proactive send differs from what it
\* gets from a delivered send.
C8_RefusalReturned ==
    (pc = "done" /\ outcome \in Refusals) => returned # SendResult("Delivered")

\* C9: a send with a live turn reference and something to send makes one
\* transport call, a continueConversation on the reference of that turn with the
\* one unit that carries the text and all rich cards; nothing else is pending, and
\* neither the service URL cache nor the target channel changes the call or
\* refuses the send.
C9_ConversationalSingleResume ==
    (Conversational /\ messagesIn # <<>>) =>
        /\ Len(calls) = 1
        /\ calls[1].op = "continueConversation"
        /\ calls[1].reference = [conversation |-> contextData.chatToolContext.context.activity.conversation,
                                 serviceUrl |-> contextData.chatToolContext.context.activity.serviceUrl]
        /\ calls[1].activity.kind = "activity"
        /\ calls[1].activity.text = TextOf(messagesIn)
        /\ calls[1].activity.attachments = CardsOf(messagesIn)
        /\ restPromise = "none" /\ threadId = ""
        /\ outcome \notin Refusals \cup {"Empty"}

C9_Witness ==
    /\ Conversational /\ pc = "done" /\ outcome = "Delivered"
    /\ DOMAIN serviceUrl = {} /\ chanDir = <<>>
    /\ contextData.channel = [id |-> "", name |-> ""]
    /\ HasText(messagesIn) /\ NumCards(messagesIn) >= 1
    /\ Len(calls) = 1

\* The parts joined by one newline between consecutive parts.
RECURSIVE JoinNL(_)
JoinNL(parts) ==
    IF parts = <<>> THEN <<>>
    ELSE IF Len(parts) = 1 THEN parts[1]
    ELSE parts[1] \o <<"\n">> \o JoinNL(Tail(parts))

\* C10: the text sent for a sequence of PlainText parts is the parts joined by
\* one newline between consecutive parts, with nothing before the first part.
C10_TextJoinedByNewline ==
    (/\ Started /\ messagesIn # <<>> /\ calls # <<>>
     /\ \A i \in DOMAIN messagesIn : messagesIn[i].type = "PLAIN_TEXT") =>
        calls[1].activity.text = JoinNL([i \in DOMAIN messagesIn |-> messagesIn[i].message])

\* The mentions of the messages, in the order send() meets them.
RECURSIVE MentionsOf(_)
MentionsOf(msgs) ==
    IF msgs = <<>> THEN <<>> ELSE Head(msgs).mentions \o MentionsOf(Tail(msgs))

BothNonEmpty(m) == m.id # "" /\ m.name # ""

\* The first two parts of C11 that the code keeps: a mention {id: "", name: N}
\* with N recorded is sent as {id: C, name: N}, C the channel last recorded as N;
\* a mention with an empty name whose id has no entry stays unresolved.
MentionsResolved(dir, given, left, sent) ==
    \A k \in DOMAIN given :
        /\ (given[k].id = "" /\ \E i \in DOMAIN dir : dir[i].name = given[k].name) =>
              \E j \in DOMAIN sent :
                  sent[j] = [id |-> dir[LastOf({ i \in DOMAIN dir : dir[i].name = given[k].name })].id,
                             name |-> given[k].name]
        /\ (given[k].name = "" /\ ~\E i \in DOMAIN dir : dir[i].id = given[k].id) =>
              left[k].name = ""

\* C11 as stated: every mention that is sent has a non-empty id and name and
\* names a channel of the directory.
C11_MentionsNameRealChannels ==
    [][ (SendBegins /\ ~IsConversation(contextData') /\ calls' # <<>>) =>
            LET sent == calls'[1].activity.entities
            IN  /\ \A j \in DOMAIN sent :
                      /\ BothNonEmpty(sent[j])
                      /\ \E i \in DOMAIN chanDir : chanDir[i] = sent[j]
                /\ MentionsResolved(chanDir, MentionsOf(messagesIn'), MentionsOf(messages'), sent) ]_vars

\* C11 as amended: the mentions sent are, in order, exactly the mentions whose id
\* and name are both non-empty after resolution (the pair need not be a directory
\* entry: a mention given with both is taken as it is when its id is unknown).
C11_MentionsSentIffBothNonEmpty ==
    [][ (SendBegins /\ ~IsConversation(contextData') /\ calls' # <<>>) =>
            LET sent == calls'[1].activity.entities
            IN  /\ \A j \in DOMAIN sent : BothNonEmpty(sent[j])
                /\ sent = SelectSeq(MentionsOf(messages'), BothNonEmpty)
                /\ MentionsResolved(chanDir, MentionsOf(messagesIn'), MentionsOf(messages'), sent) ]_vars

C11_Witness ==
    /\ Proactive /\ pc = "awaitCreate"
    /\ Len(MentionsOf(messagesIn)) = 3
    /\ calls[1].activity.entities = << [id |-> "C1", name |-> "ops"], [id |-> "C9", name |-> "zzz"] >>

\* C12: a send() writes nothing but its own result: the step from its call to
\* its first await (the whole composition) leaves the channel directory and the
\* service URL cache as they were, and leaves the caller's messages, each
\* mention's id and name included, as the caller passed them.
C12_SendWritesNothing ==
    [][ SendBegins =>
            /\ chanDir' = chanDir
            /\ serviceUrl' = serviceUrl
            /\ messages' = messagesIn' ]_vars

\* A part that brings no text and no card: a PlainText whose string is empty.
IsBlank(m) == m.type = "PLAIN_TEXT" /\ m.message = <<>>

\* C13: a send() whose messages contain neither text nor rich card (no message,
\* or PlainText parts of the empty string only) is a no-op on both paths: it
\* ends at once with no transport call and one warning, no error, in the log.
C13_NothingToSendIsNoOp ==
    [][ (SendBegins /\ \A i \in DOMAIN messagesIn' : IsBlank(messagesIn'[i])) =>
            /\ pc' = "done"
            /\ calls' = <<>>
            /\ restPromise' = "none"
            /\ log' = << LogEntry("warn", "EmptyMessage") >> ]_vars

\* C14: every run of processTurnError logs the error and attempts the diagnostic
\* message on the turn, whether or not the trace activity could be sent.
C14_DiagnosticAlwaysAttempted ==
    /\ Cardinality({ i \in DOMAIN log : log[i].what = "UnhandledError" })
         = Cardinality({ i \in DOMAIN turnSent : turnSent[i].what = "message" })
    /\ \A i \in DOMAIN log : log[i].what = "UnhandledError" => log[i].level = "error"

IsUnsupported(m) == m.type \notin {"PLAIN_TEXT", "MSTEAMS_ADAPTIVE_CARD"}

\* text has sub as a run of consecutive tokens
Contains(text, sub) ==
    \E k \in 0..(Len(text) - Len(sub)) : SubSeq(text, k + 1, k + Len(sub)) = sub

\* C15: an Unsupported part is never silently dropped: one error is logged for
\* each such part, the send is not the empty no-op, and whenever a transport call
\* is made its first activity has a text that contains the serialized payload of
\* every Unsupported part; a send with no call was refused by a proactive check.
C15_UnsupportedAppendedAndLogged ==
    [][ SendBegins =>
            LET uns == { i \in DOMAIN messagesIn' : IsUnsupported(messagesIn'[i]) }
            IN  /\ Cardinality({ j \in DOMAIN log' : log'[j] = LogEntry("error", "UnsupportedType") })
                     = Cardinality(uns)
                /\ uns # {} =>
                     /\ outcome' # "Empty"
                     /\ \A j \in DOMAIN log' : log'[j].level # "warn"
                     /\ calls' # <<>> =>
                          \A i \in uns :
                              Contains(calls'[1].activity.text,
                                       <<"{">> \o messagesIn'[i].message \o <<"}">>)
                     /\ calls' = <<>> =>
                          /\ ~IsConversation(contextData')
                          /\ outcome' \in Refusals \cup {"Error"} ]_vars

C15_Witness ==
    /\ Conversational /\ pc = "awaitContinue"
    /\ Len(messagesIn) = 1 /\ IsUnsupported(messagesIn[1])
    /\ Contains(calls[1].activity.text, <<"{", "U", "}">>)
    /\ log = << LogEntry("error", "UnsupportedType") >>

IsPrefix(s, t) == Len(s) <= Len(t) /\ SubSeq(t, 1, Len(s)) = s

\* C16: one send() issues at most one createConversation and at most one
\* continueConversation; while the send lasts, calls are only ever added, and
\* when the rest push settles (however it does) no call is added, removed or
\* changed.
C16_NoRetry ==
    [][ Started' =>
            /\ Cardinality({ i \in DOMAIN calls' : calls'[i].op = "createConversation" }) <= 1
            /\ Cardinality({ i \in DOMAIN calls' : calls'[i].op = "continueConversation" }) <= 1
            /\ Started => IsPrefix(calls, calls')
            /\ (restPromise = "pending" /\ restPromise' # "pending") => calls' = calls ]_vars

C16_Witness ==
    /\ Proactive /\ pc = "done" /\ outcome = "Delivered"
    /\ restPromise = "rejected"
    /\ Len(calls) = 2 /\ calls[2].activity.kind = "activity"

\* C17: in a proactive send whose createConversation failed, no
\* continueConversation is issued; a continueConversation of a proactive send is
\* addressed to the thread id that its createConversation returned.
C17_NoResumeAfterCreateFails ==
    /\ (Proactive /\ outcome = "TransportError") =>
          /\ ContinueCalls = {}
          /\ restPromise = "none"
          /\ threadId = ""
    /\ (Proactive /\ ContinueCalls # {}) =>
          /\ threadId \in ThreadIds
          /\ \A i \in ContinueCalls : calls[i].reference.conversation.id = threadId

C17_Witness ==
    /\ Proactive /\ pc = "done" /\ outcome = "TransportError"
    /\ Len(calls) = 1 /\ calls[1].op = "createConversation"
    /\ NumCards(messagesIn) = 2

\* C18: the three checks of a proactive send and its createConversation are one
\* step on one state of the caches: the call uses the service URL that this state
\* has for the channel this state resolves the target to; the value read is kept
\* while createConversation is pending, whatever inbound turns do to the cache,
\* and the rest push uses it.
C18_EndpointReadOnce ==
    [][ /\ (SendBegins /\ ~IsConversation(contextData') /\ calls' # <<>>) =>
              LET m == TargetMatches(chanDir, contextData'.channel)
              IN  /\ DOMAIN serviceUrl # {}
                  /\ m # {}
                  /\ chanDir[LastOf(m)].id \in DOMAIN serviceUrl
                  /\ pc' = "awaitCreate"
                  /\ calls'[1].serviceUrl = serviceUrl[chanDir[LastOf(m)].id]
                  /\ frame'.serviceUrl = calls'[1].serviceUrl
        /\ (pc = "awaitCreate" /\ pc' = "awaitCreate") => (frame' = frame /\ calls' = calls)
        /\ (pc = "awaitCreate" /\ Len(calls') = 2) =>
              /\ calls'[2].reference.serviceUrl = calls[1].serviceUrl
              /\ calls'[1] = calls[1] ]_vars

C18_Witness ==
    /\ Proactive /\ pc = "done" /\ Len(calls) = 2
    /\ calls[1].channel.id = "C1"
    /\ calls[1].serviceUrl = "E1"
    /\ calls[2].reference.serviceUrl = "E1"
    /\ serviceUrl["C1"] = "E2"

\* C19: send() never throws or rejects: whenever it ends, at once or when an
\* awaited call settles, its promise resolves with undefined, and if it ended on
\* a thrown error or a failed transport call the error is the last entry of the
\* log; an awaited call that settles always ends the send.
C19_SendAlwaysResolves ==
    [][ /\ (pc \in {"idle", "awaitContinue", "awaitCreate"} /\ pc' = "done") =>
              /\ returned' = "undefined"
              /\ outcome' \in {"TransportError", "Error"} =>
                    (log' # <<>> /\ log'[Len(log')] = LogEntry("error", "ErrorStack"))
        /\ (pc \in {"awaitContinue", "awaitCreate"} /\ pc' # pc) => pc' = "done"
        /\ pc = "done" => returned' \in {returned, "none"} ]_vars

C19_Witness ==
    /\ Conversational /\ pc = "done" /\ outcome = "TransportError"
    /\ returned = "undefined"
    /\ log[Len(log)] = LogEntry("error", "ErrorStack")

\* C20: a middleware constructed for a chat tool type other than msteams has
\* thrown, after logging an error, with no adapter and no activity handler, and
\* nothing runs on it; one constructed for msteams has not thrown and has both,
\* the adapter's onTurnError being processTurnError.
C20_WrongTypeFailsConstruction ==
    middleware # Null =>
        /\ middleware.thrown <=> middleware.type # "msteams"
        /\ middleware.thrown =>
              /\ middleware.botFrameworkAdapter = Null
              /\ middleware.botActivityHandler = Null
              /\ pc = "failed"
              /\ log = << LogEntry("error", "WrongChatToolType") >>
              /\ calls = <<>> /\ chanDir = <<>>
        /\ ~middleware.thrown =>
              /\ middleware.botFrameworkAdapter = [onTurnError |-> "processTurnError"]
              /\ middleware.botActivityHandler # Null
              /\ pc \notin {"new", "failed"}

C20_Witness ==
    /\ pc = "failed"
    /\ middleware.type = "slack"
    /\ middleware.thrown
    /\ middleware.botFrameworkAdapter = Null /\ middleware.botActivityHandler = Null

====
